---- MODULE Spec2Model ----
(***************************************************************************)
(* State-machine model of TDocSearcher.py: the folder-name parser, the     *)
(* catalog builder get_meeting_list, and the selection and retrieval loop  *)
(* of download_docs, driven by the __main__ block.                         *)
(*                                                                         *)
(* Python strings are modelled as sequences of one-character strings, so   *)
(* that regular-expression matching, str.lower, str.startswith and the     *)
(* substring test "a in b" are computed character by character.            *)
(***************************************************************************)
EXTENDS Integers, Sequences, FiniteSets, TLC

(***************************************************************************)
(* Bounds of the model.                                                    *)
(***************************************************************************)
MaxDigits == 2   \* longest digit run of the folder names given to the parser
MaxItems == 2    \* longest listing of the base path
MaxFiles == 2    \* longest listing of a document subdirectory
MaxFaults == 2   \* transport / transfer failures injected in one run

(***************************************************************************)
(* Characters and strings.                                                 *)
(***************************************************************************)
Digits == <<"0", "1", "2", "3", "4", "5", "6", "7", "8", "9">>

UpperCase == <<"A", "B", "C", "D", "E", "F", "G", "H", "I", "J", "K", "L", "M",
               "N", "O", "P", "Q", "R", "S", "T", "U", "V", "W", "X", "Y", "Z">>

LowerCase == <<"a", "b", "c", "d", "e", "f", "g", "h", "i", "j", "k", "l", "m",
               "n", "o", "p", "q", "r", "s", "t", "u", "v", "w", "x", "y", "z">>

IsDigit(c) == \E i \in 1..Len(Digits) : Digits[i] = c

DigitValue(c) == (CHOOSE i \in 1..Len(Digits) : Digits[i] = c) - 1

\* str.lower() on one character
LowerChar(c) ==
  IF \E i \in 1..Len(UpperCase) : UpperCase[i] = c
  THEN LowerCase[CHOOSE i \in 1..Len(UpperCase) : UpperCase[i] = c]
  ELSE c

\* str.lower()
Lower_Forgotten(s) == s
Lower(s) == [i \in 1..Len(s) |-> LowerChar(s[i])]

\* s.startswith(p)
StartsWith(s, p) == Len(p) <= Len(s) /\ SubSeq(s, 1, Len(p)) = p

\* "p in s" for strings: p occurs in s as a contiguous substring
Contains(s, p) ==
  \E i \in 0..(Len(s) - Len(p)) : SubSeq(s, i + 1, i + Len(p)) = p

\* int(digits)
RECURSIVE IntOf(_)
IntOf(ds) ==
  IF Len(ds) = 0 THEN 0
  ELSE 10 * IntOf(SubSeq(ds, 1, Len(ds) - 1)) + DigitValue(ds[Len(ds)])

\* length of the greedy \d+ run of s that starts at position from
RECURSIVE DigitRun(_, _)
DigitRun(s, from) ==
  IF from <= Len(s) /\ IsDigit(s[from]) THEN 1 + DigitRun(s, from + 1) ELSE 0

Slash == <<"/">>

(***************************************************************************)
(* parse_meeting_folder_name                                               *)
(***************************************************************************)
\* the literal prefix of the pattern r"TSGR1_(\d+)(.*)"
FolderPrefix == <<"T", "S", "G", "R", "1", "_">>

\* the sub_order chosen from the lower-cased suffix (group 2)
SubOrder(suffix) ==
  IF suffix \in {<<"b">>, <<"b", "i", "s">>} THEN 1
  ELSE IF suffix \in {<<"b", "-", "e">>, <<"b", "i", "s", "-", "e">>,
                      <<"b", "_", "e">>} THEN 2
  ELSE IF suffix = <<"-", "e">> \/ suffix = <<"_", "e">> THEN 3
  ELSE 0

parse_meeting_folder_name(folder_name) ==
  LET p == Len(FolderPrefix)
      n == IF StartsWith(folder_name, FolderPrefix)
           THEN DigitRun(folder_name, p + 1) ELSE 0
  IN IF n > 0
     THEN <<IntOf(SubSeq(folder_name, p + 1, p + n)),
            SubOrder(Lower(SubSeq(folder_name, p + n + 1, Len(folder_name))))>>
     ELSE <<-1, 0>>

(***************************************************************************)
(* State.                                                                  *)
(***************************************************************************)
VARIABLES
  pc,            \* position of the program
  cfg,           \* the configuration built by configure_parameters
  remote_base,   \* remote tree: listing of BASE_PATH
  remote_ah,     \* remote tree: listing of the Ad-Hoc base folder
  remote_docs,   \* remote tree: listing of each document subdirectory
  store,         \* names of the files present in DOWNLOAD_DIR
  faults,        \* number of failures the transport has produced so far
  calls,         \* transport and archiver calls issued so far, in order
  folder_name,   \* argument of the last parse_meeting_folder_name call
  parsed,        \* its return value
  base_items,    \* get_meeting_list: base_items
  item_idx,      \* get_meeting_list: position of the for loop over base_items
  meetings,      \* get_meeting_list: meetings
  all_meetings,  \* __main__: all_meetings (None, or the returned list)
  meetings_to_scan,                \* download_docs locals, named as in the code
  meeting_idx,
  found_docs_set,
  remaining_docs,
  downloaded_files_by_meeting,
  files_in_docs,
  docs_to_check_in_this_meeting,
  prefix_idx,
  file_idx,
  downloaded_in_this_meeting,
  not_found_docs,
  downloaded_files_info            \* __main__: value returned by download_docs

vars == <<pc, cfg, remote_base, remote_ah, remote_docs, store, faults, calls,
          folder_name, parsed, base_items, item_idx, meetings, all_meetings,
          meetings_to_scan, meeting_idx, found_docs_set, remaining_docs,
          downloaded_files_by_meeting, files_in_docs,
          docs_to_check_in_this_meeting, prefix_idx, file_idx,
          downloaded_in_this_meeting, not_found_docs, downloaded_files_info>>

worldVars == <<cfg, remote_base, remote_ah, remote_docs>>
parseVars == <<folder_name, parsed>>
gmlVars == <<base_items, item_idx, meetings>>
ddVars == <<meetings_to_scan, meeting_idx, found_docs_set, remaining_docs,
            downloaded_files_by_meeting, files_in_docs,
            docs_to_check_in_this_meeting, prefix_idx, file_idx,
            downloaded_in_this_meeting, not_found_docs>>

\* a Python variable that holds None or a value
None == [is_none |-> TRUE, value |-> <<>>]
Some(v) == [is_none |-> FALSE, value |-> v]
EmptyDict == [x \in {} |-> <<>>]

\* one entry of the call log
Call(op, arg, ok) == [op |-> op, arg |-> arg, files |-> <<>>, ok |-> ok]
ZipCall(name, file_paths) ==
  [op |-> "zip", arg |-> name, files |-> file_paths, ok |-> TRUE]

\* the transport may fail a call only while the failure budget lasts
CanFail(n) == faults + n <= MaxFaults

(***************************************************************************)
(* MeetingInfo                                                             *)
(***************************************************************************)
MeetingInfo(display_name, ftp_path, meeting_type, sort_key, main_number) ==
  [display_name |-> display_name, ftp_path |-> ftp_path,
   meeting_type |-> meeting_type, sort_key |-> sort_key,
   main_number |-> main_number]

\* the key of meetings.sort: sort_key for Numbered, (float('inf'), 0) for
\* the others.  A key is <<isInf, first, second>>: isInf = 1 stands for a
\* first component float('inf'), which is greater than every integer.
SortKeyOf(m) ==
  IF m.meeting_type = "Numbered"
  THEN <<0, m.sort_key[1], m.sort_key[2]>> ELSE <<1, 0, 0>>

\* Python's tuple comparison a < b on these keys
KeyLess_FirstOnly(a, b) ==
  \/ a[1] < b[1]
  \/ a[1] = b[1] /\ a[2] < b[2]
KeyLess(a, b) ==
  \/ a[1] < b[1]
  \/ a[1] = b[1] /\ a[2] < b[2]
  \/ a[1] = b[1] /\ a[2] = b[2] /\ a[3] < b[3]

\* list.sort is stable: an element goes after every element whose key is
\* not greater than its own
RECURSIVE InsertSorted(_, _)
InsertSorted(sorted, m) ==
  IF Len(sorted) = 0 THEN <<m>>
  ELSE IF KeyLess(SortKeyOf(m), SortKeyOf(sorted[Len(sorted)]))
       THEN Append(InsertSorted(SubSeq(sorted, 1, Len(sorted) - 1), m),
                   sorted[Len(sorted)])
       ELSE Append(sorted, m)

RECURSIVE SortMeetings(_)
SortMeetings(ms) ==
  IF Len(ms) = 0 THEN <<>>
  ELSE InsertSorted(SortMeetings(SubSeq(ms, 1, Len(ms) - 1)), ms[Len(ms)])

(***************************************************************************)
(* __main__ : connection                                                   *)
(***************************************************************************)
MainConnect ==
  /\ pc = "connect"
  /\ \/ /\ calls' = Append(calls, Call("connect", cfg.FTP_HOST, TRUE))
        /\ pc' = "gml_enter"
        /\ UNCHANGED faults
     \/ /\ CanFail(1)
        /\ calls' = Append(calls, Call("connect", cfg.FTP_HOST, FALSE))
        /\ faults' = faults + 1
        /\ pc' = "exit"
  /\ UNCHANGED <<worldVars, store, parseVars, gmlVars, all_meetings, ddVars,
                 downloaded_files_info>>

(***************************************************************************)
(* get_meeting_list                                                        *)
(***************************************************************************)
\* lines 151-156: enter the base path and list it
GmlEnter ==
  /\ pc = "gml_enter"
  /\ \/ /\ calls' = calls \o <<Call("cwd", cfg.BASE_PATH, TRUE),
                               Call("nlst", cfg.BASE_PATH, TRUE)>>
        /\ base_items' = remote_base
        /\ item_idx' = 1
        /\ meetings' = <<>>
        /\ pc' = "gml_item"
        /\ UNCHANGED <<faults, all_meetings>>
     \/ /\ CanFail(1)
        /\ \/ calls' = Append(calls, Call("cwd", cfg.BASE_PATH, FALSE))
           \/ calls' = calls \o <<Call("cwd", cfg.BASE_PATH, TRUE),
                                  Call("nlst", cfg.BASE_PATH, FALSE)>>
        /\ faults' = faults + 1
        /\ meetings' = <<>>
        /\ all_meetings' = None          \* lines 212-217
        /\ pc' = "main_check"
        /\ UNCHANGED <<base_items, item_idx>>
  /\ UNCHANGED <<worldVars, store, parseVars, ddVars, downloaded_files_info>>

\* lines 182-193: the Ad-Hoc sub-folders that become AH meetings
RECURSIVE AhMeetings(_, _)
AhMeetings(ah_base_path, ah_sub_folders) ==
  IF Len(ah_sub_folders) = 0 THEN <<>>
  ELSE LET sub_ah_folder == ah_sub_folders[1]
           rest == AhMeetings(ah_base_path, Tail(ah_sub_folders))
       IN IF ~Contains(sub_ah_folder, <<".">>)
          THEN <<MeetingInfo(cfg.AH_BASE_FOLDER \o Slash \o sub_ah_folder,
                             ah_base_path \o sub_ah_folder \o Slash,
                             "AH", <<>>, -1)>> \o rest
          ELSE rest

\* lines 158-171: an item that parses as a numbered meeting
GmlItemNumbered ==
  /\ pc = "gml_item"
  /\ item_idx <= Len(base_items)
  /\ LET item == base_items[item_idx]
         item_path == cfg.BASE_PATH \o item \o Slash
         r == parse_meeting_folder_name(item)
     IN /\ r[1] # -1
        /\ folder_name' = item
        /\ parsed' = r
        /\ meetings' = Append(meetings,
                         MeetingInfo(item, item_path, "Numbered", r, r[1]))
  /\ item_idx' = item_idx + 1
  /\ UNCHANGED <<pc, worldVars, store, faults, calls, base_items, all_meetings,
                 ddVars, downloaded_files_info>>

\* lines 158-163, 175, 204: an item that is neither numbered nor the
\* configured Ad-Hoc folder
GmlItemOther ==
  /\ pc = "gml_item"
  /\ item_idx <= Len(base_items)
  /\ LET item == base_items[item_idx]
         r == parse_meeting_folder_name(item)
     IN /\ r[1] = -1
        /\ ~(cfg.addAdhoc /\ cfg.AH_BASE_FOLDER # <<>>
             /\ item = cfg.AH_BASE_FOLDER)
        /\ folder_name' = item
        /\ parsed' = r
  /\ item_idx' = item_idx + 1
  /\ UNCHANGED <<pc, worldVars, store, faults, calls, base_items, meetings,
                 all_meetings, ddVars, downloaded_files_info>>

\* lines 195-202, 215-217: after the try block or its except clause the loop
\* goes on with the next item; a cwd that raises inside the except clause
\* is caught by the handlers of the function, which return None
AfterAdhoc_Abort(failing, recovered) ==
  IF failing = "none"
  THEN /\ item_idx' = item_idx + 1
       /\ UNCHANGED <<pc, all_meetings>>
  ELSE /\ all_meetings' = None
       /\ pc' = "main_check"
       /\ UNCHANGED item_idx
AfterAdhoc(failing, recovered) ==
  IF recovered
  THEN /\ item_idx' = item_idx + 1
       /\ UNCHANGED <<pc, all_meetings>>
  ELSE /\ all_meetings' = None
       /\ pc' = "main_check"
       /\ UNCHANGED item_idx

\* lines 175-202: the Ad-Hoc base folder.  failing names the first call of
\* the try block that raises ("none": no call raises); recovered tells
\* whether the cwd of the except clause succeeds.
GmlItemAdhoc ==
  /\ pc = "gml_item"
  /\ item_idx <= Len(base_items)
  /\ LET item == base_items[item_idx]
         ah_base_path == cfg.BASE_PATH \o item \o Slash
         r == parse_meeting_folder_name(item)
         found == AhMeetings(ah_base_path, remote_ah)
         toAh == Call("cwd", ah_base_path, TRUE)
         list == Call("nlst", ah_base_path, TRUE)
     IN /\ r[1] = -1
        /\ cfg.addAdhoc /\ cfg.AH_BASE_FOLDER # <<>> /\ item = cfg.AH_BASE_FOLDER
        /\ folder_name' = item
        /\ parsed' = r
        /\ \E failing \in {"none", "cwd", "nlst", "back"}, recovered \in BOOLEAN :
             LET tried ==
                   CASE failing = "none" ->
                          <<toAh, list, Call("cwd", cfg.BASE_PATH, TRUE)>>
                     [] failing = "cwd" ->
                          <<Call("cwd", ah_base_path, FALSE)>>
                     [] failing = "nlst" ->
                          <<toAh, Call("nlst", ah_base_path, FALSE)>>
                     [] failing = "back" ->
                          <<toAh, list, Call("cwd", cfg.BASE_PATH, FALSE)>>
                 nfail == IF failing = "none" THEN 0
                          ELSE IF recovered THEN 1 ELSE 2
             IN /\ failing = "none" => recovered
                /\ CanFail(nfail)
                /\ faults' = faults + nfail
                /\ calls' = calls \o tried \o
                     (IF failing = "none" THEN <<>>
                      ELSE <<Call("cwd", cfg.BASE_PATH, recovered)>>)
                /\ meetings' = IF failing \in {"none", "back"}
                               THEN meetings \o found ELSE meetings
                /\ AfterAdhoc(failing, recovered)
  /\ UNCHANGED <<worldVars, store, base_items, ddVars, downloaded_files_info>>

\* lines 207-210: sort and return
GmlSort ==
  /\ pc = "gml_item"
  /\ item_idx > Len(base_items)
  /\ meetings' = SortMeetings(meetings)
  /\ all_meetings' = Some(meetings')
  /\ pc' = "main_check"
  /\ UNCHANGED <<worldVars, store, faults, calls, parseVars, base_items,
                 item_idx, ddVars, downloaded_files_info>>

\* line 403: "if all_meetings:" is false for None and for the empty list
CatalogUsable_Always == TRUE
CatalogUsable == ~all_meetings.is_none /\ all_meetings.value # <<>>

\* lines 401-413: download_docs is called only for a non-empty catalog
MainCheck ==
  /\ pc = "main_check"
  /\ pc' = IF CatalogUsable THEN "dd_start" ELSE "finally"
  /\ UNCHANGED <<worldVars, store, faults, calls, parseVars, gmlVars,
                 all_meetings, ddVars, downloaded_files_info>>

(***************************************************************************)
(* download_docs : range and selection (lines 229-252)                     *)
(***************************************************************************)
\* lines 229-236: the numeric range, or the error of an unparsable endpoint
RangeOf_NoSwap(start_folder, end_folder) ==
  LET start_num == parse_meeting_folder_name(start_folder)[1]
      end_num == parse_meeting_folder_name(end_folder)[1]
  IN [error |-> start_num = -1 \/ end_num = -1,
      start_num |-> start_num, end_num |-> end_num]
RangeOf_BothBad(start_folder, end_folder) ==
  LET start_num == parse_meeting_folder_name(start_folder)[1]
      end_num == parse_meeting_folder_name(end_folder)[1]
  IN IF start_num = -1 /\ end_num = -1
     THEN [error |-> TRUE, start_num |-> start_num, end_num |-> end_num]
     ELSE IF start_num > end_num
          THEN [error |-> FALSE, start_num |-> end_num, end_num |-> start_num]
          ELSE [error |-> FALSE, start_num |-> start_num, end_num |-> end_num]
RangeOf(start_folder, end_folder) ==
  LET start_num == parse_meeting_folder_name(start_folder)[1]
      end_num == parse_meeting_folder_name(end_folder)[1]
  IN IF start_num = -1 \/ end_num = -1
     THEN [error |-> TRUE, start_num |-> start_num, end_num |-> end_num]
     ELSE IF start_num > end_num
          THEN [error |-> FALSE, start_num |-> end_num, end_num |-> start_num]
          ELSE [error |-> FALSE, start_num |-> start_num, end_num |-> end_num]

\* lines 243-252: the test of one meeting
IsScanned_Exclusive(meeting, start_num, end_num) ==
  IF meeting.meeting_type = "AH" /\ cfg.addAdhoc
  THEN IF cfg.adhocFilterText # <<>>
       THEN Contains(meeting.ftp_path, cfg.adhocFilterText)
       ELSE TRUE
  ELSE /\ meeting.meeting_type = "Numbered"
       /\ start_num <= meeting.main_number
       /\ meeting.main_number < end_num
IsScanned(meeting, start_num, end_num) ==
  IF meeting.meeting_type = "AH" /\ cfg.addAdhoc
  THEN IF cfg.adhocFilterText # <<>>
       THEN Contains(meeting.ftp_path, cfg.adhocFilterText)
       ELSE TRUE
  ELSE /\ meeting.meeting_type = "Numbered"
       /\ start_num <= meeting.main_number
       /\ meeting.main_number <= end_num

\* lines 240-252: the loop that builds meetings_to_scan
RECURSIVE SelectMeetings(_, _, _)
SelectMeetings(ms, start_num, end_num) ==
  IF Len(ms) = 0 THEN <<>>
  ELSE (IF IsScanned(ms[1], start_num, end_num) THEN <<ms[1]>> ELSE <<>>)
       \o SelectMeetings(Tail(ms), start_num, end_num)

\* the orders in which list(set) may enumerate a set
Orders(S) ==
  {q \in [1..Cardinality(S) -> S] : \A i, j \in DOMAIN q : i # j => q[i] # q[j]}

\* d[k] = v on a dict
Put(d, k, v) == [x \in (DOMAIN d) \cup {k} |-> IF x = k THEN v ELSE d[x]]

\* os.path.join(download_dir, filename)
LocalPath(filename) == cfg.DOWNLOAD_DIR \o Slash \o filename

\* meeting_name.replace('/', '_')
ReplaceSlash(name) ==
  [i \in 1..Len(name) |-> IF name[i] = "/" THEN "_" ELSE name[i]]

\* line 364: the archive written by zip_single_meeting_docs
ZipFilename(meeting_name) ==
  LocalPath(ReplaceSlash(meeting_name) \o <<".", "z", "i", "p">>)

\* lines 223-265
DdStart ==
  /\ pc = "dd_start"
  /\ LET range == RangeOf(cfg.start_meeting_range_folder,
                          cfg.end_meeting_range_folder)
     IN /\ folder_name' = cfg.end_meeting_range_folder
        /\ parsed' = parse_meeting_folder_name(cfg.end_meeting_range_folder)
        /\ IF range.error
           THEN /\ downloaded_files_info' = Some(EmptyDict)     \* line 234
                /\ pc' = "finally"
                /\ UNCHANGED ddVars
           ELSE /\ meetings_to_scan' =
                     SelectMeetings(all_meetings.value,
                                    range.start_num, range.end_num)
                /\ meeting_idx' = 1
                /\ found_docs_set' = {}
                /\ remaining_docs' = cfg.target_doc_prefixes
                /\ downloaded_files_by_meeting' = EmptyDict
                /\ pc' = "dd_loop"
                /\ UNCHANGED <<files_in_docs, docs_to_check_in_this_meeting,
                               prefix_idx, file_idx,
                               downloaded_in_this_meeting, not_found_docs,
                               downloaded_files_info>>
  /\ UNCHANGED <<worldVars, store, faults, calls, gmlVars, all_meetings>>

(***************************************************************************)
(* download_docs : the loop over meetings_to_scan (lines 267-341)          *)
(***************************************************************************)
DocsPath(meeting) == meeting.ftp_path \o cfg.DOC_SUBDIR \o Slash

\* line 268: "if not remaining_docs"
AllFound_Never == FALSE
AllFound == remaining_docs = {}

\* line 267: the for loop is exhausted
DdLoopDone ==
  /\ pc = "dd_loop"
  /\ meeting_idx > Len(meetings_to_scan)
  /\ pc' = "dd_finish"
  /\ UNCHANGED <<worldVars, store, faults, calls, parseVars, gmlVars,
                 all_meetings, ddVars, downloaded_files_info>>

\* lines 268-270: early exit
DdEarlyExit ==
  /\ pc = "dd_loop"
  /\ meeting_idx <= Len(meetings_to_scan)
  /\ AllFound
  /\ pc' = "dd_finish"
  /\ UNCHANGED <<worldVars, store, faults, calls, parseVars, gmlVars,
                 all_meetings, ddVars, downloaded_files_info>>

\* lines 272-284: the document subdirectory is entered and listed
DdEnter ==
  /\ pc = "dd_loop"
  /\ meeting_idx <= Len(meetings_to_scan)
  /\ ~AllFound
  /\ LET docs_path == DocsPath(meetings_to_scan[meeting_idx])
     IN /\ calls' = calls \o <<Call("cwd", docs_path, TRUE),
                               Call("nlst", docs_path, TRUE)>>
        /\ files_in_docs' = remote_docs[docs_path]
        /\ \E order \in Orders(remaining_docs) :
             /\ docs_to_check_in_this_meeting' = order
             /\ prefix_idx' = IF Len(files_in_docs') = 0
                              THEN Len(order) + 1 ELSE 1
  /\ file_idx' = 1
  /\ downloaded_in_this_meeting' = <<>>
  /\ pc' = "dd_match"
  /\ UNCHANGED <<worldVars, store, faults, parseVars, gmlVars, all_meetings,
                 meetings_to_scan, meeting_idx, found_docs_set, remaining_docs,
                 downloaded_files_by_meeting, not_found_docs,
                 downloaded_files_info>>

\* lines 325-341: the except clauses of the loop body.  recovered tells
\* whether the cwd back to BASE_PATH succeeds.
Handler_Return(recovered) ==
  /\ downloaded_files_info' = Some(downloaded_files_by_meeting')
  /\ pc' = "finally"
  /\ UNCHANGED meeting_idx
Handler_Continue(recovered) ==
  /\ meeting_idx' = meeting_idx + 1
  /\ pc' = "dd_loop"
  /\ UNCHANGED downloaded_files_info
Handler_ReturnEmpty(recovered) ==
  IF recovered
  THEN /\ meeting_idx' = meeting_idx + 1
       /\ pc' = "dd_loop"
       /\ UNCHANGED downloaded_files_info
  ELSE /\ downloaded_files_info' = Some(EmptyDict)
       /\ pc' = "finally"
       /\ UNCHANGED meeting_idx
Handler(recovered) ==
  IF recovered
  THEN /\ meeting_idx' = meeting_idx + 1
       /\ pc' = "dd_loop"
       /\ UNCHANGED downloaded_files_info
  ELSE /\ downloaded_files_info' = Some(downloaded_files_by_meeting')
       /\ pc' = "finally"
       /\ UNCHANGED meeting_idx

\* lines 276-279 raise: cwd to the document subdirectory or its listing fails
DdEnterFail ==
  /\ pc = "dd_loop"
  /\ meeting_idx <= Len(meetings_to_scan)
  /\ ~AllFound
  /\ LET docs_path == DocsPath(meetings_to_scan[meeting_idx])
     IN \E failing \in {"cwd", "nlst"}, recovered \in BOOLEAN :
          LET nfail == IF recovered THEN 1 ELSE 2
          IN /\ CanFail(nfail)
             /\ faults' = faults + nfail
             /\ calls' = calls
                  \o (IF failing = "cwd"
                      THEN <<Call("cwd", docs_path, FALSE)>>
                      ELSE <<Call("cwd", docs_path, TRUE),
                             Call("nlst", docs_path, FALSE)>>)
                  \o <<Call("cwd", cfg.BASE_PATH, recovered)>>
             /\ UNCHANGED downloaded_files_by_meeting
             /\ Handler(recovered)
  /\ UNCHANGED <<worldVars, store, parseVars, gmlVars, all_meetings,
                 meetings_to_scan, found_docs_set, remaining_docs,
                 files_in_docs, docs_to_check_in_this_meeting, prefix_idx,
                 file_idx, downloaded_in_this_meeting, not_found_docs>>

\* the two nested for loops of lines 286-287 move to their next pair
Advance ==
  IF file_idx < Len(files_in_docs)
  THEN /\ file_idx' = file_idx + 1
       /\ UNCHANGED prefix_idx
  ELSE /\ file_idx' = 1
       /\ prefix_idx' = prefix_idx + 1

\* line 314: the break is commented out, so the inner loop goes on with the
\* next filename after a match
AdvanceAfterMatch_Break ==
  /\ file_idx' = 1
  /\ prefix_idx' = prefix_idx + 1
AdvanceAfterMatch == Advance

\* line 292: os.path.exists(local_filepath)
LocalExists_Never(local_filepath) == FALSE
LocalExists(local_filepath) == local_filepath \in store

\* lines 298, 306, 309: open() creates the local file, os.remove deletes it
RemovePartial_Keep(local_filepath) == store \cup {local_filepath}
RemovePartial(local_filepath) ==
  (store \cup {local_filepath}) \ {local_filepath}

InMatch ==
  /\ pc = "dd_match"
  /\ prefix_idx <= Len(docs_to_check_in_this_meeting)

\* lines 298-301: a completed retrbinary leaves the file in DOWNLOAD_DIR
WriteFile_Lost(local_filepath) == store
WriteFile(local_filepath) == store \cup {local_filepath}

\* lines 311-313
MarkFound_NoRemove(doc_prefix) ==
  /\ remaining_docs' = remaining_docs
  /\ found_docs_set' = found_docs_set \cup {doc_prefix}
MarkFound_NoAdd(doc_prefix) ==
  /\ remaining_docs' = remaining_docs \ {doc_prefix}
  /\ found_docs_set' = found_docs_set
MarkFound(doc_prefix) ==
  /\ remaining_docs' = remaining_docs \ {doc_prefix}
  /\ found_docs_set' = found_docs_set \cup {doc_prefix}

\* lines 304-313: the except clauses fall through to the same three lines, so
\* an identifier whose download failed is marked as found too
MarkFoundAfterFailure_Requeue(doc_prefix) ==
  /\ remaining_docs' = remaining_docs \cup {doc_prefix}
  /\ found_docs_set' = found_docs_set \ {doc_prefix}
MarkFoundAfterFailure(doc_prefix) == MarkFound(doc_prefix)

\* line 288 is false
DdNoMatch ==
  /\ InMatch
  /\ ~StartsWith(files_in_docs[file_idx],
                 docs_to_check_in_this_meeting[prefix_idx])
  /\ Advance
  /\ UNCHANGED <<pc, worldVars, store, faults, calls, parseVars, gmlVars,
                 all_meetings, meetings_to_scan, meeting_idx, found_docs_set,
                 remaining_docs, downloaded_files_by_meeting, files_in_docs,
                 docs_to_check_in_this_meeting, downloaded_in_this_meeting,
                 not_found_docs, downloaded_files_info>>

\* lines 288-294, 311-313: the matched file is already in DOWNLOAD_DIR
DdMatchExisting ==
  /\ InMatch
  /\ LET doc_prefix == docs_to_check_in_this_meeting[prefix_idx]
         filename == files_in_docs[file_idx]
     IN /\ StartsWith(filename, doc_prefix)
        /\ LocalExists(LocalPath(filename))
        /\ downloaded_in_this_meeting' =
             Append(downloaded_in_this_meeting, LocalPath(filename))
        /\ MarkFound(doc_prefix)
  /\ AdvanceAfterMatch
  /\ UNCHANGED <<pc, worldVars, store, faults, calls, parseVars, gmlVars,
                 all_meetings, meetings_to_scan, meeting_idx,
                 downloaded_files_by_meeting, files_in_docs,
                 docs_to_check_in_this_meeting, not_found_docs,
                 downloaded_files_info>>

\* lines 288-313: the matched file is retrieved; the transfer succeeds, or
\* raises ftplib.error_temp, or raises another exception
DdMatchDownload ==
  /\ InMatch
  /\ LET doc_prefix == docs_to_check_in_this_meeting[prefix_idx]
         filename == files_in_docs[file_idx]
         local_filepath == LocalPath(filename)
     IN /\ StartsWith(filename, doc_prefix)
        /\ ~LocalExists(local_filepath)
        /\ \E outcome \in {"ok", "error_temp", "exception"} :
             IF outcome = "ok"
             THEN /\ calls' = Append(calls, Call("retr", filename, TRUE))
                  /\ store' = WriteFile(local_filepath)
                  /\ downloaded_in_this_meeting' =
                       Append(downloaded_in_this_meeting, local_filepath)
                  /\ MarkFound(doc_prefix)
                  /\ UNCHANGED faults
             ELSE /\ CanFail(1)
                  /\ faults' = faults + 1
                  /\ calls' = Append(calls, Call("retr", filename, FALSE))
                  /\ store' = RemovePartial(local_filepath)
                  /\ MarkFoundAfterFailure(doc_prefix)
                  /\ UNCHANGED downloaded_in_this_meeting
  /\ AdvanceAfterMatch
  /\ UNCHANGED <<pc, worldVars, parseVars, gmlVars, all_meetings,
                 meetings_to_scan, meeting_idx, downloaded_files_by_meeting,
                 files_in_docs, docs_to_check_in_this_meeting, not_found_docs,
                 downloaded_files_info>>

\* lines 316-317: only a container with collected files gets a key
RecordFiles_Always(by_meeting, display_name, file_paths) ==
  Put(by_meeting, display_name, file_paths)
RecordFiles(by_meeting, display_name, file_paths) ==
  IF file_paths # <<>>
  THEN Put(by_meeting, display_name, file_paths)
  ELSE by_meeting

\* lines 316-320: the archiver is called inside "if downloaded_in_this_meeting"
\* and only when ZIP_AFTER_DOWNLOAD is set
ArchiverCalls_Always(display_name, file_paths) ==
  IF cfg.zipAfterDownload
  THEN <<ZipCall(display_name, file_paths)>>
  ELSE <<>>
ArchiverCalls(display_name, file_paths) ==
  IF file_paths # <<>> /\ cfg.zipAfterDownload
  THEN <<ZipCall(display_name, file_paths)>>
  ELSE <<>>

\* lines 316-341: the container's files are recorded and archived, and the
\* transport goes back to BASE_PATH; if that cwd raises, the except clause
\* tries it once more
DdEndContainer ==
  /\ pc = "dd_match"
  /\ prefix_idx > Len(docs_to_check_in_this_meeting)
  /\ LET meeting == meetings_to_scan[meeting_idx]
         zipCalls == ArchiverCalls(meeting.display_name,
                                   downloaded_in_this_meeting)
         zipped == zipCalls # <<>>
     IN /\ downloaded_files_by_meeting' =
             RecordFiles(downloaded_files_by_meeting, meeting.display_name,
                         downloaded_in_this_meeting)
        /\ store' = IF zipped
                    THEN store \cup {ZipFilename(meeting.display_name)}
                    ELSE store
        /\ \/ /\ calls' = calls \o zipCalls
                            \o <<Call("cwd", cfg.BASE_PATH, TRUE)>>
              /\ meeting_idx' = meeting_idx + 1
              /\ pc' = "dd_loop"
              /\ UNCHANGED <<faults, downloaded_files_info>>
           \/ \E recovered \in BOOLEAN :
                LET nfail == IF recovered THEN 1 ELSE 2
                IN /\ CanFail(nfail)
                   /\ faults' = faults + nfail
                   /\ calls' = calls \o zipCalls
                                 \o <<Call("cwd", cfg.BASE_PATH, FALSE),
                                      Call("cwd", cfg.BASE_PATH, recovered)>>
                   /\ Handler(recovered)
  /\ UNCHANGED <<worldVars, parseVars, gmlVars, all_meetings, meetings_to_scan,
                 found_docs_set, remaining_docs, files_in_docs,
                 docs_to_check_in_this_meeting, prefix_idx, file_idx,
                 downloaded_in_this_meeting, not_found_docs>>

\* lines 343-355
DdFinish ==
  /\ pc = "dd_finish"
  /\ not_found_docs' = cfg.target_doc_prefixes \ found_docs_set
  /\ downloaded_files_info' = Some(downloaded_files_by_meeting)
  /\ pc' = "finally"
  /\ UNCHANGED <<worldVars, store, faults, calls, parseVars, gmlVars,
                 all_meetings, meetings_to_scan, meeting_idx, found_docs_set,
                 remaining_docs, downloaded_files_by_meeting, files_in_docs,
                 docs_to_check_in_this_meeting, prefix_idx, file_idx,
                 downloaded_in_this_meeting>>

\* lines 423-429: ftp.quit()
MainFinally ==
  /\ pc = "finally"
  /\ calls' = Append(calls, Call("quit", <<>>, TRUE))
  /\ pc' = "exit"
  /\ UNCHANGED <<worldVars, store, faults, parseVars, gmlVars, all_meetings,
                 ddVars, downloaded_files_info>>

(***************************************************************************)
(* The parser applied to one folder name on its own.                       *)
(***************************************************************************)
ParseName ==
  /\ pc = "parse"
  /\ parsed' = parse_meeting_folder_name(folder_name)
  /\ pc' = "parsed"
  /\ UNCHANGED <<worldVars, store, faults, calls, folder_name, gmlVars,
                 all_meetings, ddVars, downloaded_files_info>>

(***************************************************************************)
(* Inputs: the configuration, the remote tree and the local store.         *)
(***************************************************************************)
\* all sequences without repetition of at most n elements of S
DistinctSeqs(S, n) ==
  UNION {{q \in [1..k -> S] : \A i, j \in 1..k : i # j => q[i] # q[j]} : k \in 0..n}

Host == <<"h">>
BasePath == <<"/", "W", "/">>
AhFolder == <<"T", "S", "G", "R", "1", "_", "A", "H">>
DocSubdir == <<"D", "o", "c", "s">>
DownloadDir == <<"d", "l">>

Folder(suffix) == FolderPrefix \o suffix

\* entries of the base path
BaseNames ==
  {Folder(<<"1">>), Folder(<<"1", "x">>), Folder(<<"1", "B", "i", "s">>),
   Folder(<<"2", "-", "e">>), AhFolder, <<"I", "n">>}

\* entries of the Ad-Hoc base folder, and the listings of it that are tried
AhNames == {<<"N", "R">>, <<"L", "T">>, <<"a", ".", "z">>}
AhListings ==
  {<<>>, <<<<"L", "T">>>>, <<<<"N", "R">>, <<"L", "T">>>>,
   <<<<"a", ".", "z">>, <<"N", "R">>>>}

\* names of remote documents and the target prefixes
Doc1a == <<"D", "1", "a">>
Doc1b == <<"D", "1", "b">>
Doc2 == <<"D", "2">>
DocFiles == {Doc1a, Doc1b, Doc2}
TargetD == <<"D">>
TargetD1 == <<"D", "1">>

DocsPathOf(ftp_path) == ftp_path \o DocSubdir \o Slash

AllDocsPaths ==
  {DocsPathOf(BasePath \o item \o Slash) : item \in BaseNames \cup {Folder(<<"3">>)}}
  \cup {DocsPathOf(BasePath \o AhFolder \o Slash \o sub \o Slash) : sub \in AhNames}

\* configure_parameters, lines 56-102
Config(addAdhoc, adhocFilterText, start, end, zip, targets) ==
  [FTP_HOST |-> Host, BASE_PATH |-> BasePath, DOC_SUBDIR |-> DocSubdir,
   DOWNLOAD_DIR |-> DownloadDir, addAdhoc |-> addAdhoc,
   AH_BASE_FOLDER |-> IF addAdhoc THEN AhFolder ELSE <<>>,
   adhocFilterText |-> IF addAdhoc THEN adhocFilterText ELSE <<>>,
   start_meeting_range_folder |-> start, end_meeting_range_folder |-> end,
   zipAfterDownload |-> zip, target_doc_prefixes |-> targets]

\* the values of the program's variables before it starts
InitProgram ==
  /\ faults = 0
  /\ calls = <<>>
  /\ base_items = <<>>
  /\ item_idx = 1
  /\ meetings = <<>>
  /\ all_meetings = None
  /\ meetings_to_scan = <<>>
  /\ meeting_idx = 1
  /\ found_docs_set = {}
  /\ remaining_docs = {}
  /\ downloaded_files_by_meeting = EmptyDict
  /\ files_in_docs = <<>>
  /\ docs_to_check_in_this_meeting = <<>>
  /\ prefix_idx = 1
  /\ file_idx = 1
  /\ downloaded_in_this_meeting = <<>>
  /\ not_found_docs = {}
  /\ downloaded_files_info = None

\* Retrieval: a fixed tree of two numbered meetings and one Ad-Hoc meeting,
\* every listing of the numbered meetings' documents, a single target and
\* two targets of which one is a prefix of the other
Init ==
  /\ pc = "connect"
  /\ folder_name = <<>>
  /\ parsed = <<-1, 0>>
  /\ \E addAdhoc \in BOOLEAN,
        targets \in {{TargetD1}, {TargetD, TargetD1}} :
       cfg = Config(addAdhoc, <<>>, Folder(<<"1">>), Folder(<<"3">>),
                    addAdhoc, targets)
  /\ remote_base = <<Folder(<<"3">>), AhFolder, Folder(<<"1">>)>>
  /\ remote_ah = <<<<"N", "R">>>>
  /\ \E l1, l2 \in DistinctSeqs(DocFiles, MaxFiles) :
       remote_docs = [p \in AllDocsPaths |->
                        IF p = DocsPathOf(BasePath \o Folder(<<"1">>) \o Slash)
                        THEN l1
                        ELSE IF p = DocsPathOf(BasePath \o Folder(<<"3">>) \o Slash)
                        THEN l2
                        ELSE <<Doc2>>]
  /\ store \in {{}, {DownloadDir \o Slash \o Doc1a}}
  /\ InitProgram

Next ==
  \/ MainConnect
  \/ GmlEnter
  \/ GmlItemNumbered
  \/ GmlItemOther
  \/ GmlItemAdhoc
  \/ GmlSort
  \/ MainCheck
  \/ DdStart
  \/ DdLoopDone
  \/ DdEarlyExit
  \/ DdEnter
  \/ DdEnterFail
  \/ DdNoMatch
  \/ DdMatchExisting
  \/ DdMatchDownload
  \/ DdEndContainer
  \/ DdFinish
  \/ MainFinally

Spec == Init /\ [][Next]_vars

\* Catalog and selection: every listing of the base path and of the Ad-Hoc
\* folder, every setting of the Ad-Hoc flag and filter, several ranges; the
\* document subdirectories all hold the one target, which is already in the
\* local store in the runs that use a filter
RangePairs ==
  LET one == Folder(<<"1">>)
      two == Folder(<<"2", "b">>)
      bad == <<"T", "S", "G", "R", "2", "_", "1">>
  IN {<<one, one>>, <<two, one>>, <<bad, two>>, <<one, bad>>}

InitCatalog ==
  /\ pc = "connect"
  /\ folder_name = <<>>
  /\ parsed = <<-1, 0>>
  /\ \E addAdhoc \in BOOLEAN, adhocFilterText \in {<<>>, <<"N", "R">>},
        range \in RangePairs :
       /\ ~addAdhoc => adhocFilterText = <<>>
       /\ cfg = Config(addAdhoc, adhocFilterText, range[1], range[2], TRUE,
                       {TargetD1})
  /\ remote_base \in DistinctSeqs(BaseNames, MaxItems)
  /\ remote_ah \in IF cfg.addAdhoc
                      /\ AhFolder \in {remote_base[i] : i \in DOMAIN remote_base}
                   THEN AhListings ELSE {<<>>}
  /\ remote_docs = [p \in AllDocsPaths |-> <<Doc2, Doc1a>>]
  /\ store = IF cfg.adhocFilterText = <<>>
             THEN {} ELSE {DownloadDir \o Slash \o Doc1a}
  /\ InitProgram

SpecCatalog == InitCatalog /\ [][Next]_vars

\* The parser alone, on folder names made of a prefix, a digit run and a
\* suffix
ParsePrefixes ==
  {FolderPrefix, <<>>, <<"T", "S", "G", "R", "2", "_">>,
   <<"t", "s", "g", "r", "1", "_">>, <<"x">> \o FolderPrefix}

ParseSuffixes ==
  {<<>>, <<"b">>, <<"B">>, <<"b", "i", "s">>, <<"B", "I", "S">>,
   <<"B", "i", "s">>, <<"b", "-", "e">>, <<"B", "-", "E">>,
   <<"b", "i", "s", "-", "e">>, <<"b", "_", "e">>, <<"b", "i", "s", "_", "e">>,
   <<"-", "e">>, <<"_", "e">>, <<"-", "E">>, <<"e">>, <<"x">>, <<"b", "1">>,
   <<"-", "e", "2">>}

ParseNames ==
  {pre \o ds \o suf :
     pre \in ParsePrefixes,
     ds \in UNION {[1..k -> {"0", "1", "9"}] : k \in 0..MaxDigits},
     suf \in ParseSuffixes}

InitParse ==
  /\ pc = "parse"
  /\ folder_name \in ParseNames
  /\ parsed = <<-1, 0>>
  /\ cfg = Config(FALSE, <<>>, <<>>, <<>>, FALSE, {})
  /\ remote_base = <<>>
  /\ remote_ah = <<>>
  /\ remote_docs = EmptyDict
  /\ store = {}
  /\ InitProgram

NextParse == ParseName

SpecParse == InitParse /\ [][NextParse]_vars

(***************************************************************************)
(* Helpers of the properties.                                              *)
(***************************************************************************)
Range(q) == {q[i] : i \in DOMAIN q}

\* the calls on the transport that change directory, list or retrieve
IsTransfer(c) == c.op \in {"cwd", "nlst", "retr"}
TransferCalls(log) == SelectSeq(log, IsTransfer)

\* the calls issued since the last listing, that is in the current container
LastListing == 
  IF \E i \in DOMAIN calls : calls[i].op = "nlst"
  THEN CHOOSE i \in DOMAIN calls :
         calls[i].op = "nlst" /\ \A j \in DOMAIN calls : calls[j].op = "nlst" => j <= i
  ELSE 0
CallsInContainer == SubSeq(calls, LastListing + 1, Len(calls))
IsFailedRetr(c) == c.op = "retr" /\ ~c.ok
IsGoodRetr(c) == c.op = "retr" /\ c.ok

\* the (identifier, filename) pairs the two loops have already gone through
\* in the current container, and those of them that match
PairsDone ==
  {ij \in (DOMAIN docs_to_check_in_this_meeting) \X (DOMAIN files_in_docs) :
     ij[1] < prefix_idx \/ (ij[1] = prefix_idx /\ ij[2] < file_idx)}
MatchesDone ==
  {ij \in PairsDone :
     StartsWith(files_in_docs[ij[2]], docs_to_check_in_this_meeting[ij[1]])}

\* the loops stand on a pair whose filename starts with the identifier
AtMatch ==
  /\ InMatch
  /\ StartsWith(files_in_docs[file_idx],
                docs_to_check_in_this_meeting[prefix_idx])

(***************************************************************************)
(* C1.  As claimed: first match wins, so when a filename is matched for an *)
(* identifier, no earlier filename of the same listing has matched that    *)
(* identifier (at most one file per identifier per container).             *)
(***************************************************************************)
C1_FirstMatchWins ==
  AtMatch =>
    \A j \in 1..(file_idx - 1) :
      ~StartsWith(files_in_docs[j], docs_to_check_in_this_meeting[prefix_idx])

(***************************************************************************)
(* C1 as amended: every filename of the listing that starts with the       *)
(* identifier is matched.  Each matching pair gone through has either      *)
(* appended a path to the container's file list or made a failed retrieve, *)
(* and its identifier is no longer in the remaining set.                   *)
(***************************************************************************)
C1_EveryMatchProcessed ==
  pc = "dd_match" =>
    /\ Cardinality(MatchesDone) =
         Len(downloaded_in_this_meeting)
         + Len(SelectSeq(CallsInContainer, IsFailedRetr))
    /\ \A ij \in MatchesDone :
         /\ docs_to_check_in_this_meeting[ij[1]] \notin remaining_docs
         /\ docs_to_check_in_this_meeting[ij[1]] \in found_docs_set

\* two filenames of one listing have been matched for the same identifier
C1_Witness ==
  /\ pc = "dd_match"
  /\ \E a, b \in MatchesDone : a[1] = b[1] /\ a[2] # b[2]
  /\ Len(downloaded_in_this_meeting) >= 2

(***************************************************************************)
(* C2.  Early exit: once the remaining set is empty at the top of the      *)
(* container loop, the loop ends at once and no change-directory, listing  *)
(* or retrieve call is issued from then on, so no later container is       *)
(* entered or listed.                                                      *)
(***************************************************************************)
C2_EarlyExit ==
  [][(pc \in {"dd_loop", "dd_finish", "finally", "exit"} /\ remaining_docs = {})
       => /\ TransferCalls(calls') = TransferCalls(calls)
          /\ meeting_idx' = meeting_idx
          /\ pc' \in {"dd_finish", "finally", "exit"}]_vars

\* every target was matched in the first container and a selected container
\* was left unscanned
C2_Witness ==
  /\ pc = "exit"
  /\ remaining_docs = {}
  /\ meeting_idx = 2
  /\ Len(meetings_to_scan) >= 2
  /\ Len(SelectSeq(calls, LAMBDA c : c.op = "nlst")) = 2

(***************************************************************************)
(* C3.  A failed retrieval leaves no local file, adds no path to the       *)
(* container's file list, and still removes the identifier from the        *)
(* remaining set and marks it found; an identifier marked found stays      *)
(* found and is not among the identifiers searched in a later container.   *)
(***************************************************************************)
C3_FailedDownload ==
  [][/\ (Len(calls') = Len(calls) + 1 /\ IsFailedRetr(calls'[Len(calls')]))
          => LET doc_prefix == docs_to_check_in_this_meeting[prefix_idx]
                 filename == calls'[Len(calls')].arg
             IN /\ filename = files_in_docs[file_idx]
                /\ LocalPath(filename) \notin store'
                /\ downloaded_in_this_meeting' = downloaded_in_this_meeting
                /\ doc_prefix \notin remaining_docs'
                /\ doc_prefix \in found_docs_set'
     /\ (pc \in {"dd_loop", "dd_match"})
          => /\ found_docs_set \subseteq found_docs_set'
             /\ (docs_to_check_in_this_meeting' # docs_to_check_in_this_meeting
                   => Range(docs_to_check_in_this_meeting') \cap found_docs_set' = {})]_vars

\* a retrieval failed in the first container and the second container, which
\* lists a file of the same identifier, is being scanned without it
C3_Witness ==
  /\ pc = "dd_match"
  /\ meeting_idx = 2
  /\ \E i \in 1..LastListing : IsFailedRetr(calls[i])
       /\ \E d \in found_docs_set :
            /\ StartsWith(calls[i].arg, d)
            /\ d \notin Range(docs_to_check_in_this_meeting)
            /\ \E j \in DOMAIN files_in_docs : StartsWith(files_in_docs[j], d)
            /\ \A k \in DOMAIN downloaded_files_by_meeting :
                 LocalPath(calls[i].arg) \notin Range(downloaded_files_by_meeting[k])

(***************************************************************************)
(* C4.  Already-downloaded short-circuit: when the matched filename exists *)
(* in the local store, its local path is appended to the container's file  *)
(* list, no call is made on the transport, and the identifier leaves the   *)
(* remaining set.                                                          *)
(***************************************************************************)
C4_AlreadyDownloaded ==
  [][(AtMatch /\ LocalPath(files_in_docs[file_idx]) \in store)
       => /\ downloaded_in_this_meeting' =
               Append(downloaded_in_this_meeting,
                      LocalPath(files_in_docs[file_idx]))
          /\ calls' = calls
          /\ store' = store
          /\ docs_to_check_in_this_meeting[prefix_idx] \notin remaining_docs']_vars

\* a path was appended to the container's file list without a retrieve
C4_Witness ==
  /\ pc = "dd_match"
  /\ Len(downloaded_in_this_meeting)
       > Len(SelectSeq(CallsInContainer, IsGoodRetr))
  /\ \E i \in DOMAIN downloaded_in_this_meeting :
       /\ downloaded_in_this_meeting[i] \in store
       /\ \A j \in DOMAIN CallsInContainer :
            LocalPath(CallsInContainer[j].arg) # downloaded_in_this_meeting[i]

(***************************************************************************)
(* Helpers of the selection properties.                                    *)
(***************************************************************************)
\* download_docs has built meetings_to_scan
HasSelected == pc \in {"dd_loop", "dd_match", "dd_finish"}

StartOrdinal == parse_meeting_folder_name(cfg.start_meeting_range_folder)[1]
EndOrdinal == parse_meeting_folder_name(cfg.end_meeting_range_folder)[1]
LowOrdinal == IF StartOrdinal <= EndOrdinal THEN StartOrdinal ELSE EndOrdinal
HighOrdinal == IF StartOrdinal <= EndOrdinal THEN EndOrdinal ELSE StartOrdinal

\* the containers the selection is claimed to keep
InSelection(m) ==
  \/ m.meeting_type = "Numbered"
       /\ m.main_number \in LowOrdinal..HighOrdinal
  \/ m.meeting_type = "AH"
       /\ cfg.addAdhoc
       /\ Contains(m.ftp_path, cfg.adhocFilterText)

(***************************************************************************)
(* C5.  The list of containers download_docs scans is exactly the          *)
(* subsequence of the catalog, in catalog order, of the Numbered           *)
(* containers whose main_number lies in the inclusive range and of the     *)
(* Categorical containers whose path contains the filter text when the     *)
(* flag is true; no Categorical container is selected when it is false.    *)
(***************************************************************************)
C5_Selection ==
  HasSelected =>
    /\ meetings_to_scan = SelectSeq(all_meetings.value, InSelection)
    /\ ~cfg.addAdhoc =>
         \A i \in DOMAIN meetings_to_scan :
           meetings_to_scan[i].meeting_type # "AH"

\* a filter is set; a Numbered container at the end of the range and a
\* Categorical container are selected, another Categorical container is not
C5_Witness ==
  /\ HasSelected
  /\ cfg.adhocFilterText # <<>>
  /\ \E i \in DOMAIN meetings_to_scan :
       /\ meetings_to_scan[i].meeting_type = "Numbered"
       /\ meetings_to_scan[i].main_number = HighOrdinal
       /\ LowOrdinal < HighOrdinal
  /\ \E i \in DOMAIN meetings_to_scan : meetings_to_scan[i].meeting_type = "AH"
  /\ \E i \in DOMAIN all_meetings.value :
       /\ all_meetings.value[i].meeting_type = "AH"
       /\ all_meetings.value[i] \notin Range(meetings_to_scan)

(***************************************************************************)
(* C6.  As claimed: in the catalog get_meeting_list returns, a Numbered    *)
(* container A precedes a Numbered container B if and only if the sort key *)
(* of A is lexicographically less than the sort key of B, and every        *)
(* Categorical container comes after every Numbered container.             *)
(***************************************************************************)
PairLess(a, b) == a[1] < b[1] \/ (a[1] = b[1] /\ a[2] < b[2])

C6_StrictKeyOrder ==
  ~all_meetings.is_none =>
    LET cat == all_meetings.value
    IN \A i, j \in DOMAIN cat :
         /\ (i # j /\ cat[i].meeting_type = "Numbered"
                   /\ cat[j].meeting_type = "Numbered")
              => (i < j <=> PairLess(cat[i].sort_key, cat[j].sort_key))
         /\ (cat[i].meeting_type = "AH" /\ cat[j].meeting_type = "Numbered")
              => j < i

(***************************************************************************)
(* C6 as amended: the Numbered containers are in non-decreasing order of   *)
(* their sort keys (A precedes B whenever the key of A is less than the    *)
(* key of B), Numbered containers with equal keys keep the order of the    *)
(* base listing, and every Categorical container comes after every         *)
(* Numbered container.                                                     *)
(***************************************************************************)
PositionInBase(name) == CHOOSE k \in DOMAIN base_items : base_items[k] = name

C6_KeyOrder ==
  ~all_meetings.is_none =>
    LET cat == all_meetings.value
    IN \A i, j \in DOMAIN cat :
         /\ (cat[i].meeting_type = "Numbered" /\ cat[j].meeting_type = "Numbered"
               /\ PairLess(cat[i].sort_key, cat[j].sort_key))
              => i < j
         /\ (cat[i].meeting_type = "Numbered" /\ cat[j].meeting_type = "Numbered"
               /\ cat[i].sort_key = cat[j].sort_key
               /\ PositionInBase(cat[i].display_name)
                    < PositionInBase(cat[j].display_name))
              => i < j
         /\ (cat[i].meeting_type = "AH" /\ cat[j].meeting_type = "Numbered")
              => j < i

\* the sort has moved a Numbered container in front of one listed before it,
\* on the sub-rank alone
C6_Witness ==
  /\ ~all_meetings.is_none
  /\ LET cat == all_meetings.value
     IN \E i, j \in DOMAIN cat :
          /\ i < j
          /\ cat[i].meeting_type = "Numbered"
          /\ cat[j].meeting_type = "Numbered"
          /\ cat[i].sort_key[1] = cat[j].sort_key[1]
          /\ cat[i].sort_key[2] < cat[j].sort_key[2]
          /\ PositionInBase(cat[i].display_name)
               > PositionInBase(cat[j].display_name)

(***************************************************************************)
(* C7.  parse_meeting_folder_name returns (-1, 0) for a name that does not *)
(* start with the prefix followed by a digit; otherwise it returns the     *)
(* value of the digit run and the rank of the remainder, compared without  *)
(* regard to case: empty 0, b or bis 1, b-e, bis-e or b_e 2, -e or _e 3,   *)
(* anything else 0.                                                        *)
(***************************************************************************)
SameLetter(c, d) ==
  c = d \/ \E k \in DOMAIN UpperCase : {c, d} = {UpperCase[k], LowerCase[k]}

EqualNoCase(a, b) ==
  Len(a) = Len(b) /\ \A i \in DOMAIN a : SameLetter(a[i], b[i])

RECURSIVE DecimalValue(_, _, _)
DecimalValue(s, from, to) ==
  IF from > to THEN 0
  ELSE DigitValue(s[from]) * 10 ^ (to - from) + DecimalValue(s, from + 1, to)

RankOfRemainder(rest) ==
  CASE rest = <<>> -> 0
    [] EqualNoCase(rest, <<"b">>) \/ EqualNoCase(rest, <<"b", "i", "s">>) -> 1
    [] EqualNoCase(rest, <<"b", "-", "e">>)
         \/ EqualNoCase(rest, <<"b", "i", "s", "-", "e">>)
         \/ EqualNoCase(rest, <<"b", "_", "e">>) -> 2
    [] EqualNoCase(rest, <<"-", "e">>) \/ EqualNoCase(rest, <<"_", "e">>) -> 3
    [] OTHER -> 0

C7_ParseTable ==
  pc = "parsed" =>
    LET p == Len(FolderPrefix)
        n == Len(folder_name)
    IN IF n > p /\ SubSeq(folder_name, 1, p) = FolderPrefix
               /\ IsDigit(folder_name[p + 1])
       THEN \E e \in (p + 1)..n :
              /\ \A i \in (p + 1)..e : IsDigit(folder_name[i])
              /\ e = n \/ ~IsDigit(folder_name[e + 1])
              /\ parsed = <<DecimalValue(folder_name, p + 1, e),
                            RankOfRemainder(SubSeq(folder_name, e + 1, n))>>
       ELSE parsed = <<-1, 0>>

\* a two-digit number followed by an upper-case suffix of rank 2
C7_Witness ==
  /\ pc = "parsed"
  /\ parsed = <<19, 2>>
  /\ folder_name[Len(folder_name)] = "E"

(***************************************************************************)
(* C8.  Range auto-swap: when both endpoints parse, the selection is not   *)
(* an error and the list of containers to scan equals the list the         *)
(* selection builds from the same catalog with the two endpoints           *)
(* exchanged.                                                              *)
(***************************************************************************)
C8_RangeAutoSwap ==
  [][(pc = "dd_start" /\ StartOrdinal # -1 /\ EndOrdinal # -1) =>
       LET swapped == RangeOf(cfg.end_meeting_range_folder,
                              cfg.start_meeting_range_folder)
       IN /\ ~swapped.error
          /\ pc' = "dd_loop"
          /\ meetings_to_scan' =
               SelectMeetings(all_meetings.value,
                              swapped.start_num, swapped.end_num)]_vars

\* the start ordinal exceeds the end ordinal and a Numbered container between
\* them is selected
C8_Witness ==
  /\ HasSelected
  /\ StartOrdinal > EndOrdinal
  /\ EndOrdinal # -1
  /\ \E i \in DOMAIN meetings_to_scan :
       meetings_to_scan[i].meeting_type = "Numbered"

(***************************************************************************)
(* C9.  If either range endpoint parses to -1, download_docs returns an    *)
(* empty mapping at once: no container is selected and no                  *)
(* change-directory, listing or retrieve call is issued.                   *)
(***************************************************************************)
RangeUnparsable == StartOrdinal = -1 \/ EndOrdinal = -1

C9_RangeError ==
  [][RangeUnparsable =>
       /\ pc = "dd_start"
            => /\ pc' = "finally"
               /\ downloaded_files_info' = Some(EmptyDict)
               /\ calls' = calls
       /\ pc \in {"dd_start", "finally", "exit"}
            => /\ TransferCalls(calls') = TransferCalls(calls)
               /\ meetings_to_scan' = <<>>
               /\ downloaded_files_by_meeting' = EmptyDict
               /\ store' = store
       /\ ~HasSelected']_vars

\* download_docs was called on a non-empty catalog with an unparsable
\* endpoint and has returned
C9_Witness ==
  /\ pc = "exit"
  /\ RangeUnparsable
  /\ ~all_meetings.is_none
  /\ all_meetings.value # <<>>
  /\ downloaded_files_info = Some(EmptyDict)
  /\ StartOrdinal # -1 \/ EndOrdinal # -1

(***************************************************************************)
(* C10.  As claimed: when entering or listing the document subdirectory of *)
(* a selected container fails, the container gets no entry in the result   *)
(* mapping, the remaining set is unchanged, the records of the earlier     *)
(* containers are kept, and the scan goes on with the next container.      *)
(***************************************************************************)
\* the step enters or lists the current container's subdirectory and fails
EnterFails ==
  /\ pc = "dd_loop"
  /\ \E k \in (Len(calls) + 1)..Len(calls') :
       /\ calls'[k].op \in {"cwd", "nlst"}
       /\ calls'[k].arg = DocsPath(meetings_to_scan[meeting_idx])
       /\ ~calls'[k].ok

SkipsContainer ==
  /\ downloaded_files_by_meeting' = downloaded_files_by_meeting
  /\ meetings_to_scan[meeting_idx].display_name
       \notin DOMAIN downloaded_files_by_meeting'
  /\ remaining_docs' = remaining_docs
  /\ found_docs_set' = found_docs_set
  /\ store' = store

C10_SkipAndContinue ==
  [][EnterFails =>
       /\ SkipsContainer
       /\ pc' = "dd_loop"
       /\ meeting_idx' = meeting_idx + 1]_vars

(***************************************************************************)
(* C10 as amended: ... the container gets no entry, the remaining set is   *)
(* unchanged and the earlier records are kept; the scan goes on with the   *)
(* next container when the change back to the base path succeeds, and when *)
(* that change fails too download_docs returns the mapping gathered so far.*)
(***************************************************************************)
C10_SkipContainer ==
  [][EnterFails =>
       /\ SkipsContainer
       /\ LET back == calls'[Len(calls')]
          IN /\ back.op = "cwd" /\ back.arg = cfg.BASE_PATH
             /\ IF back.ok
                THEN /\ pc' = "dd_loop"
                     /\ meeting_idx' = meeting_idx + 1
                     /\ downloaded_files_info' = downloaded_files_info
                ELSE /\ pc' = "finally"
                     /\ downloaded_files_info'
                          = Some(downloaded_files_by_meeting)]_vars

\* the second container could not be entered or listed; the record of the
\* first is kept and the third is being scanned
C10_Witness ==
  /\ pc = "dd_match"
  /\ meeting_idx = 3
  /\ DOMAIN downloaded_files_by_meeting = {meetings_to_scan[1].display_name}
  /\ \E k \in DOMAIN calls :
       /\ calls[k].op \in {"cwd", "nlst"}
       /\ calls[k].arg = DocsPath(meetings_to_scan[2])
       /\ ~calls[k].ok

(***************************************************************************)
(* Helpers of the retrieval properties.                                    *)
(***************************************************************************)
IsRetr(c) == c.op = "retr"
IsZip(c) == c.op = "zip"
IsCwd(c) == c.op = "cwd"
IsListing(c) == c.op = "nlst"
\* the calls a step has added to the log
NewCalls == SubSeq(calls', Len(calls) + 1, Len(calls'))

(***************************************************************************)
(* C11.  As claimed: no retry, so over the whole run at most one retrieve  *)
(* is attempted for any one matched filename, also after a failed attempt. *)
(***************************************************************************)
C11_AtMostOneAttempt ==
  \A i, j \in DOMAIN calls :
    (IsRetr(calls[i]) /\ IsRetr(calls[j]) /\ calls[i].arg = calls[j].arg)
      => i = j

(***************************************************************************)
(* C11 as amended: one retrieve at most is attempted per matching          *)
(* (identifier, filename) pair of a container scan, and none once a        *)
(* retrieve of that filename has succeeded; a filename that starts with    *)
(* two identifiers can be attempted again after a failed attempt.          *)
(* Every step adds at most one retrieve to the log, every retrieve that    *)
(* has a later retrieve of the same filename has failed, and the           *)
(* retrieves of a container scan are no more than its matching pairs       *)
(* gone through.                                                           *)
(***************************************************************************)
C11_OneAttemptPerMatch ==
  /\ \A i, j \in DOMAIN calls :
       (IsRetr(calls[i]) /\ IsRetr(calls[j]) /\ calls[i].arg = calls[j].arg
          /\ i < j) => ~calls[i].ok
  /\ pc = "dd_match" =>
       \A f \in Range(files_in_docs) :
         Cardinality({k \in DOMAIN CallsInContainer :
                        IsRetr(CallsInContainer[k])
                        /\ CallsInContainer[k].arg = f})
           <= Cardinality({ij \in MatchesDone : files_in_docs[ij[2]] = f})

\* a filename whose retrieve failed for one identifier was retrieved again,
\* with success, for another identifier in the same container
C11_Witness ==
  /\ pc = "dd_match"
  /\ \E i, j \in DOMAIN CallsInContainer :
       /\ i < j
       /\ IsFailedRetr(CallsInContainer[i])
       /\ IsGoodRetr(CallsInContainer[j])
       /\ CallsInContainer[i].arg = CallsInContainer[j].arg

\* the two loops over the container's listing are over
AtContainerEnd ==
  /\ pc = "dd_match"
  /\ prefix_idx > Len(docs_to_check_in_this_meeting)

(***************************************************************************)
(* C12.  With archiving enabled the archiver is called exactly once for    *)
(* each scanned container that collected a file, with that container's     *)
(* display name and its complete file list, when the loops over the        *)
(* container's listing are over and before any later call on the           *)
(* transport; only changes of directory to the base path follow it in the  *)
(* same step and the container is left.  No other step calls the archiver, *)
(* so it is never called for a container without collected files and never *)
(* deferred.                                                               *)
(***************************************************************************)
C12_ArchivePerContainer ==
  [][LET zips == SelectSeq(NewCalls, IsZip)
     IN IF AtContainerEnd /\ cfg.zipAfterDownload
             /\ downloaded_in_this_meeting # <<>>
        THEN /\ zips = <<ZipCall(meetings_to_scan[meeting_idx].display_name,
                                 downloaded_in_this_meeting)>>
             /\ NewCalls[1] = zips[1]
             /\ \A k \in 2..Len(NewCalls) :
                  IsCwd(NewCalls[k]) /\ NewCalls[k].arg = cfg.BASE_PATH
             /\ Cardinality(MatchesDone) =
                  Len(downloaded_in_this_meeting)
                  + Len(SelectSeq(CallsInContainer, IsFailedRetr))
             /\ meeting_idx' = meeting_idx + 1 \/ pc' = "finally"
        ELSE zips = <<>>]_vars

\* the first container was archived and the second container has then been
\* entered and listed
C12_Witness ==
  /\ pc = "dd_match"
  /\ meeting_idx = 2
  /\ \E i \in 1..LastListing :
       /\ IsZip(calls[i])
       /\ calls[i].arg = meetings_to_scan[1].display_name
       /\ calls[i].files = downloaded_files_by_meeting[calls[i].arg]
       /\ IsCwd(calls[i + 1])
       /\ \A j \in DOMAIN calls : IsZip(calls[j]) => j = i

(***************************************************************************)
(* C13.  The remaining set only shrinks: download_docs starts it as the    *)
(* full set of requested identifiers, and from then on every step leaves   *)
(* it a subset of its previous value, so an identifier taken out of it is  *)
(* never put back.                                                         *)
(***************************************************************************)
C13_RemainingShrinks ==
  [][/\ (pc = "dd_start" /\ pc' = "dd_loop")
          => remaining_docs' = cfg.target_doc_prefixes
     /\ pc # "dd_start" => remaining_docs' \subseteq remaining_docs]_vars

\* an identifier left the remaining set in the first container, after a
\* retrieve that failed, and the second container is scanned for the rest
C13_Witness ==
  /\ pc = "dd_match"
  /\ meeting_idx = 2
  /\ remaining_docs # {}
  /\ remaining_docs # cfg.target_doc_prefixes
  /\ remaining_docs \subseteq cfg.target_doc_prefixes
  /\ \E i \in 1..LastListing : IsFailedRetr(calls[i])

(***************************************************************************)
(* Helpers of the catalog properties.                                      *)
(***************************************************************************)
AhBasePath == cfg.BASE_PATH \o cfg.AH_BASE_FOLDER \o Slash
\* the positions of the log where entering or listing the Ad-Hoc base
\* folder failed
AhFailures ==
  {i \in DOMAIN calls :
     /\ cfg.addAdhoc
     /\ calls[i].op \in {"cwd", "nlst"}
     /\ calls[i].arg = AhBasePath
     /\ ~calls[i].ok}
\* every top-level entry that parses has its Numbered container in catalog
HasEveryNumbered(catalog) ==
  \A i \in DOMAIN base_items :
    parse_meeting_folder_name(base_items[i])[1] # -1
      => \E k \in DOMAIN catalog :
           /\ catalog[k].display_name = base_items[i]
           /\ catalog[k].meeting_type = "Numbered"

(***************************************************************************)
(* C14.  As claimed: a failure while entering or listing the Ad-Hoc base   *)
(* folder never aborts the catalog build; get_meeting_list still returns   *)
(* a catalog, holding the Numbered container of every parsable top-level   *)
(* entry.                                                                  *)
(***************************************************************************)
C14_AdhocFailureNeverAborts ==
  (pc = "main_check" /\ AhFailures # {})
    => /\ ~all_meetings.is_none
       /\ HasEveryNumbered(all_meetings.value)

(***************************************************************************)
(* C14 as amended: after a failure while entering or listing the Ad-Hoc    *)
(* base folder the except clause changes back to the base path.  When that *)
(* change succeeds the build goes on and get_meeting_list returns a        *)
(* catalog holding the Numbered container of every parsable top-level      *)
(* entry, those listed after the Ad-Hoc folder included; when that change  *)
(* fails too, get_meeting_list returns None.                               *)
(***************************************************************************)
C14_AdhocFailureCaught ==
  (pc = "main_check" /\ AhFailures # {})
    => \A i \in AhFailures :
         /\ IsCwd(calls[i + 1])
         /\ calls[i + 1].arg = cfg.BASE_PATH
         /\ IF calls[i + 1].ok
            THEN /\ ~all_meetings.is_none
                 /\ HasEveryNumbered(all_meetings.value)
            ELSE all_meetings.is_none

\* entering the Ad-Hoc base folder failed and the catalog returned holds a
\* Numbered container listed after that folder
C14_Witness ==
  /\ pc = "main_check"
  /\ AhFailures # {}
  /\ ~all_meetings.is_none
  /\ \E i, j \in DOMAIN base_items :
       /\ i < j
       /\ base_items[i] = cfg.AH_BASE_FOLDER
       /\ \E k \in DOMAIN all_meetings.value :
            all_meetings.value[k].display_name = base_items[j]

\* the last change of directory of the log
LastCwd ==
  LET idx == {i \in DOMAIN calls : IsCwd(calls[i])}
  IN calls[CHOOSE i \in idx : \A j \in idx : j <= i]

(***************************************************************************)
(* C15.  Whenever the container loop of download_docs starts on a next     *)
(* container, whatever happened in the container before (scanned, failed   *)
(* to enter or list, failed on the first change back), the last change of  *)
(* directory made on the transport was a successful one to the base path.  *)
(***************************************************************************)
C15_BackAtBasePath ==
  (pc = "dd_loop" /\ meeting_idx > 1)
    => /\ LastCwd.ok
       /\ LastCwd.arg = cfg.BASE_PATH

\* the change back to the base path failed after a container, the except
\* clause made it again with success, and the loop is at its next container
C15_Witness ==
  /\ pc = "dd_loop"
  /\ meeting_idx > 1
  /\ meeting_idx <= Len(meetings_to_scan)
  /\ remaining_docs # {}
  /\ Len(calls) >= 2
  /\ calls[Len(calls) - 1] = Call("cwd", cfg.BASE_PATH, FALSE)
  /\ calls[Len(calls)] = Call("cwd", cfg.BASE_PATH, TRUE)

\* no listing of a selected container holds a filename that starts with a
\* requested identifier
NoMatchAnywhere ==
  \A i \in DOMAIN meetings_to_scan :
    \A f \in Range(remote_docs[DocsPath(meetings_to_scan[i])]) :
      \A t \in cfg.target_doc_prefixes : ~StartsWith(f, t)

(***************************************************************************)
(* C16.  When the container loop of download_docs is over, by exhaustion   *)
(* or by early exit, the set reported as not located is the requested set  *)
(* minus the found set, which is the remaining set at that point, and the  *)
(* function returns its mapping.  If no listing of a selected container    *)
(* holds a filename starting with a requested identifier, the reported set *)
(* is the whole requested set and the returned mapping is empty.           *)
(***************************************************************************)
C16_FinalReport ==
  [][pc = "dd_finish"
       => /\ not_found_docs' = cfg.target_doc_prefixes \ found_docs_set
          /\ not_found_docs' = remaining_docs
          /\ downloaded_files_info' = Some(downloaded_files_by_meeting)
          /\ pc' = "finally"
          /\ NoMatchAnywhere
               => /\ not_found_docs' = cfg.target_doc_prefixes
                  /\ downloaded_files_info' = Some(EmptyDict)]_vars

\* two containers were listed, none of them holds a matching filename, and
\* the whole requested set was reported with an empty mapping
C16_Witness ==
  /\ pc = "finally"
  /\ NoMatchAnywhere
  /\ Cardinality({i \in DOMAIN calls :
                     /\ IsListing(calls[i]) /\ calls[i].ok
                     /\ \E m \in DOMAIN meetings_to_scan :
                          calls[i].arg = DocsPath(meetings_to_scan[m])}) >= 2
  /\ cfg.target_doc_prefixes # {}
  /\ not_found_docs = cfg.target_doc_prefixes
  /\ downloaded_files_info = Some(EmptyDict)

\* get_meeting_list could not enter or list the base path
BaseFailed ==
  \E i \in DOMAIN calls :
    /\ calls[i].op \in {"cwd", "nlst"}
    /\ calls[i].arg = cfg.BASE_PATH
    /\ ~calls[i].ok
    /\ \A j \in 1..(i - 1) : ~IsListing(calls[j])

(***************************************************************************)
(* C17.  If the base path cannot be entered or listed, get_meeting_list    *)
(* returns None, no partial catalog; the failed call is the last call on   *)
(* the transport before quit, so nothing is tried again; download_docs is  *)
(* not called: no document subdirectory is entered or listed, nothing is   *)
(* retrieved or archived, and no mapping is returned.                      *)
(***************************************************************************)
C17_BaseFailure ==
  BaseFailed
    => /\ all_meetings.is_none
       /\ meetings = <<>>
       /\ pc \in {"main_check", "finally", "exit"}
       /\ ~TransferCalls(calls)[Len(TransferCalls(calls))].ok
       /\ Len(SelectSeq(calls, IsCwd)) = 1
       /\ Len(SelectSeq(calls, IsListing)) <= 1
       /\ SelectSeq(calls, IsRetr) = <<>>
       /\ SelectSeq(calls, IsZip) = <<>>
       /\ meetings_to_scan = <<>>
       /\ downloaded_files_info.is_none

\* the listing of the base path failed and the program has ended
C17_Witness ==
  /\ pc = "exit"
  /\ BaseFailed
  /\ \E i \in DOMAIN calls : calls[i] = Call("nlst", cfg.BASE_PATH, FALSE)

\* the document subdirectory of the container was listed with success
WasListed(meeting) ==
  \E i \in DOMAIN calls :
    calls[i] = Call("nlst", DocsPath(meeting), TRUE)

\* every key of the mapping is the display name of a selected container
\* that was listed, its list is not empty, and each of its paths is the
\* local path of a filename of that listing that starts with a requested
\* identifier and is present in the local store
MappingSound(by_meeting) ==
  \A name \in DOMAIN by_meeting :
    /\ by_meeting[name] # <<>>
    /\ \E i \in DOMAIN meetings_to_scan :
         LET meeting == meetings_to_scan[i]
         IN /\ meeting.display_name = name
            /\ WasListed(meeting)
            /\ \A path \in Range(by_meeting[name]) :
                 /\ path \in store
                 /\ \E f \in Range(remote_docs[DocsPath(meeting)]) :
                      /\ path = LocalPath(f)
                      /\ \E t \in cfg.target_doc_prefixes : StartsWith(f, t)

(***************************************************************************)
(* C18.  Every key of the mapping of download_docs, while it is built and  *)
(* when it is returned, is the display name of a selected container that   *)
(* was listed; its list is not empty and every path of it is the local     *)
(* path of a filename of that container's listing that starts with a       *)
(* requested identifier and is in the local store, downloaded or already   *)
(* there.  For the single target D1 and a first container listing          *)
(* [D1a, D2], the mapping returned has that container alone, mapped to the *)
(* local path of D1a, when D1a is in the local store.                      *)
(***************************************************************************)
C18_MappingSound ==
  /\ MappingSound(downloaded_files_by_meeting)
  /\ ~downloaded_files_info.is_none =>
       /\ MappingSound(downloaded_files_info.value)
       /\ (/\ cfg.target_doc_prefixes = {TargetD1}
           /\ meetings_to_scan # <<>>
           /\ WasListed(meetings_to_scan[1])
           /\ remote_docs[DocsPath(meetings_to_scan[1])] = <<Doc1a, Doc2>>
           /\ LocalPath(Doc1a) \in store)
            => /\ DOMAIN downloaded_files_info.value =
                    {meetings_to_scan[1].display_name}
               /\ downloaded_files_info.value[meetings_to_scan[1].display_name]
                    = <<LocalPath(Doc1a)>>

\* the target D1 was downloaded from a first container listing [D1a, D2]
\* and the mapping was returned
C18_Witness ==
  /\ pc = "exit"
  /\ cfg.target_doc_prefixes = {TargetD1}
  /\ ~downloaded_files_info.is_none
  /\ remote_docs[DocsPath(meetings_to_scan[1])] = <<Doc1a, Doc2>>
  /\ \E i \in DOMAIN calls : calls[i] = Call("retr", Doc1a, TRUE)
  /\ DOMAIN downloaded_files_info.value = {meetings_to_scan[1].display_name}
  /\ downloaded_files_info.value[meetings_to_scan[1].display_name]
       = <<LocalPath(Doc1a)>>

(***************************************************************************)
(* C19.  At every point of the container loop of download_docs the found   *)
(* set and the remaining set partition the requested set: they are         *)
(* disjoint and their union is the requested set, so the identifiers that  *)
(* are not found are exactly those still in the remaining set.             *)
(***************************************************************************)
C19_Partition ==
  HasSelected
    => /\ found_docs_set \cap remaining_docs = {}
       /\ found_docs_set \cup remaining_docs = cfg.target_doc_prefixes
       /\ cfg.target_doc_prefixes \ found_docs_set = remaining_docs

\* in the middle of a container scan one identifier is found and another
\* is still searched
C19_Witness ==
  /\ InMatch
  /\ found_docs_set # {}
  /\ remaining_docs # {}
  /\ found_docs_set \cup remaining_docs = cfg.target_doc_prefixes

(***************************************************************************)
(* C20.  When, after an error on a container, the change back to the base  *)
(* path of the except clause fails too, download_docs stops at once: the   *)
(* container loop is left on that container, the mapping gathered so far   *)
(* is returned, and no later call enters, lists or downloads anything.     *)
(***************************************************************************)
C20_StopOnFailedReturn ==
  [][/\ (/\ pc \in {"dd_loop", "dd_match"}
         /\ NewCalls # <<>>
         /\ NewCalls[Len(NewCalls)] = Call("cwd", cfg.BASE_PATH, FALSE))
          => /\ pc' = "finally"
             /\ meeting_idx' = meeting_idx
             /\ downloaded_files_info' = Some(downloaded_files_by_meeting')
             /\ \A name \in DOMAIN downloaded_files_by_meeting :
                  /\ name \in DOMAIN downloaded_files_by_meeting'
                  /\ downloaded_files_by_meeting'[name] =
                       downloaded_files_by_meeting[name]
     /\ (/\ pc \in {"finally", "exit"}
         /\ TransferCalls(calls) # <<>>
         /\ TransferCalls(calls)[Len(TransferCalls(calls))]
              = Call("cwd", cfg.BASE_PATH, FALSE))
          => /\ TransferCalls(calls') = TransferCalls(calls)
             /\ downloaded_files_info' = downloaded_files_info
             /\ meeting_idx' = meeting_idx]_vars

\* the first container gave a file, entering the second failed and so did
\* the change back to the base path; the program ended with the mapping of
\* the first container and a selected container left unvisited
C20_Witness ==
  /\ pc = "exit"
  /\ meeting_idx = 2
  /\ Len(meetings_to_scan) >= 3
  /\ remaining_docs # {}
  /\ calls[Len(calls) - 1] = Call("cwd", cfg.BASE_PATH, FALSE)
  /\ ~downloaded_files_info.is_none
  /\ DOMAIN downloaded_files_info.value = {meetings_to_scan[1].display_name}

====
